---- MODULE Spec2Model ----
(***************************************************************************)
(* Drag-reorderable, sortable table variants of knguyen30111/table-r.      *)
(* One of the table components is mounted by a parent that owns the data   *)
(* array; the model follows the drag-end / drop handlers, the header sort  *)
(* toggle and the drag session state of every variant.                    *)
(* JavaScript arrays are sequences; indices in the operators below are     *)
(* 0-based as in the source (At(arr, i) reads arr[i]).                     *)
(***************************************************************************)
EXTENDS Integers, Sequences, FiniteSets, TLC

\* ---------------------------------------------------------------- bounds
\* the largest count the parent passes to generateData(count)
MaxRows == 3

\* the rows that fit in the scroll element of a virtualized table
ViewportRows == 1

\* ------------------------------------------------------------ JS helpers
\* the JavaScript value undefined, as an array element
Undefined == 0

Min(a, b) == IF a < b THEN a ELSE b
Max(a, b) == IF a > b THEN a ELSE b

\* arr[i] for a 0-based index; out of range reads undefined
At(arr, i) == IF i >= 0 /\ i < Len(arr) THEN arr[i + 1] ELSE Undefined

\* Array.prototype.splice(start, deleteCount, ...items): the array after it
Splice(arr, start, deleteCount, items) ==
  LET len == Len(arr)
      s   == IF start < 0 THEN Max(len + start, 0) ELSE Min(start, len)
      d   == Min(Max(deleteCount, 0), len - s)
  IN  SubSeq(arr, 1, s) \o items \o SubSeq(arr, s + d + 1, len)

\* Array.prototype.splice(start, deleteCount): the removed elements
Spliced(arr, start, deleteCount) ==
  LET len == Len(arr)
      s   == IF start < 0 THEN Max(len + start, 0) ELSE Min(start, len)
      d   == Min(Max(deleteCount, 0), len - s)
  IN  SubSeq(arr, s + 1, s + d)

\* String(n) for a non-negative integer id
Digits == <<"0", "1", "2", "3", "4", "5", "6", "7", "8", "9">>
RECURSIVE String(_)
String(n) ==
  IF n < 10 THEN Digits[n + 1]
  ELSE String(n \div 10) \o Digits[(n % 10) + 1]

\* ----------------------------------------------------------------- rows
\* generateData(count): rows with id index + 1; a row is identified with
\* its id, its firstName is `First${id}`
generateData(count) == [index \in 1..count |-> index]

\* item.id
IdOf(row) == row

\* the numeric chunk of firstName that the alphanumeric sortingFn compares
firstName(row) == row

\* data.findIndex((item) => item.id === id)
findIndexById(arr, id) ==
  IF \E i \in 1..Len(arr) : IdOf(arr[i]) = id
  THEN (CHOOSE i \in 1..Len(arr) :
          /\ IdOf(arr[i]) = id
          /\ \A j \in 1..(i - 1) : IdOf(arr[j]) # id) - 1
  ELSE -1

\* data.findIndex((item) => String(item.id) === draggedId)
findIndexByString(arr, draggedId) ==
  IF \E i \in 1..Len(arr) : String(IdOf(arr[i])) = draggedId
  THEN (CHOOSE i \in 1..Len(arr) :
          /\ String(IdOf(arr[i])) = draggedId
          /\ \A j \in 1..(i - 1) : String(IdOf(arr[j])) # draggedId) - 1
  ELSE -1

\* data.indexOf(row)
indexOf(arr, row) ==
  IF \E i \in 1..Len(arr) : arr[i] = row
  THEN (CHOOSE i \in 1..Len(arr) :
          /\ arr[i] = row
          /\ \A j \in 1..(i - 1) : arr[j] # row) - 1
  ELSE -1

\* -------------------------------------------------- table model (sorting)
\* the columns whose columnDef has enableSorting: true
SortableColumns == {"firstName"}

\* row.getValue(columnId) for a sortable column
getValue(row, columnId) == firstName(row)

\* column.getFirstSortDir(): string columns sort ascending first
getFirstSortDir(columnId) == "asc"

\* column.getIsSorted(): "asc", "desc" or "false"
getIsSorted(srt, columnId) ==
  IF \E i \in 1..Len(srt) : srt[i].id = columnId
  THEN LET i == CHOOSE i \in 1..Len(srt) : srt[i].id = columnId
       IN  IF srt[i].desc THEN "desc" ELSE "asc"
  ELSE "false"

\* column.getNextSortingOrder(), sorting removal enabled (the default)
getNextSortingOrder(srt, columnId) ==
  LET isSorted == getIsSorted(srt, columnId)
      first    == getFirstSortDir(columnId)
  IN  IF isSorted = "false" THEN first
      ELSE IF isSorted # first THEN "false"
      ELSE IF isSorted = "desc" THEN "asc" ELSE "desc"

\* column.toggleSorting(undefined, multi): the next sorting state
toggleSorting(old, columnId, multi) ==
  LET next     == getNextSortingOrder(old, columnId)
      existing == \E i \in 1..Len(old) : old[i].id = columnId
      isLast   == Len(old) > 0 /\ old[Len(old)].id = columnId
      nextDesc == (next = "desc")
      action0  == IF Len(old) > 0 /\ multi
                  THEN (IF existing THEN "toggle" ELSE "add")
                  ELSE IF Len(old) > 0 /\ ~isLast THEN "replace"
                  ELSE IF existing THEN "toggle" ELSE "replace"
      action   == IF action0 = "toggle" /\ next = "false"
                  THEN "remove" ELSE action0
  IN  CASE action = "add" ->
             Append(old, [id |-> columnId, desc |-> nextDesc])
        [] action = "toggle" ->
             [i \in 1..Len(old) |->
                IF old[i].id = columnId
                THEN [id |-> columnId, desc |-> nextDesc] ELSE old[i]]
        [] action = "remove" ->
             SelectSeq(old, LAMBDA d : d.id # columnId)
        [] OTHER -> <<[id |-> columnId, desc |-> nextDesc]>>

\* the comparator of getSortedRowModel on rows at original indices i and j:
\* the first sorting entry that tells the rows apart decides, inverted when
\* desc; rows that no entry tells apart keep their original order
RECURSIVE sortsBefore(_, _, _, _)
sortsBefore(arr, srt, i, j) ==
  IF srt = <<>> THEN i < j
  ELSE LET va == getValue(arr[i], Head(srt).id)
           vb == getValue(arr[j], Head(srt).id)
       IN  IF va = vb THEN sortsBefore(arr, Tail(srt), i, j)
           ELSE IF Head(srt).desc THEN va > vb ELSE va < vb

\* table.getRowModel().rows mapped to row.original: the displayed order
getRowModel(arr, srt) ==
  IF srt = <<>> THEN arr
  ELSE LET order == SortSeq([i \in 1..Len(arr) |-> i],
                            LAMBDA i, j : sortsBefore(arr, srt, i, j))
       IN  [k \in 1..Len(arr) |-> arr[order[k]]]

\* ------------------------------------------------------ move computations
\* the row is inserted at newIndex without being removed first
spliceMove_noRemove(arr, oldIndex, newIndex) ==
  Splice(arr, newIndex, 0, <<At(arr, oldIndex)>>)

\* the rows at oldIndex and newIndex change places
spliceMove_swap(arr, oldIndex, newIndex) ==
  [k \in 1..Len(arr) |->
     IF k = oldIndex + 1 THEN At(arr, newIndex)
     ELSE IF k = newIndex + 1 THEN At(arr, oldIndex)
     ELSE arr[k]]

\* the over row's index is taken after the dragged row was removed, so the
\* dragged row lands just before the over row
spliceMove_beforeOver(arr, oldIndex, newIndex) ==
  Splice(Splice(arr, oldIndex, 1, <<>>),
         IF oldIndex < newIndex THEN newIndex - 1 ELSE newIndex, 0,
         <<At(arr, oldIndex)>>)

\* newData = [...data]; newData.splice(oldIndex, 1);
\* newData.splice(newIndex, 0, data[oldIndex])
spliceMove(arr, oldIndex, newIndex) ==
  Splice(Splice(arr, oldIndex, 1, <<>>), newIndex, 0, <<At(arr, oldIndex)>>)

\* newData = [...data]; const [movedItem] = newData.splice(from, 1);
\* newData.splice(to, 0, movedItem)
spliceMoveItem(arr, from, to) ==
  LET removed   == Spliced(arr, from, 1)
      movedItem == IF removed = <<>> THEN Undefined ELSE removed[1]
  IN  Splice(Splice(arr, from, 1, <<>>), to, 0, <<movedItem>>)

\* the rows at from and to change places
arrayMove_swap(arr, from, to) ==
  [k \in 1..Len(arr) |->
     IF k = from + 1 THEN At(arr, to)
     ELSE IF k = to + 1 THEN At(arr, from)
     ELSE arr[k]]

\* arrayMove of @dnd-kit/sortable: the insertion index is computed on the
\* full-length copy, before the element is removed
arrayMove(arr, from, to) ==
  LET insertAt  == IF to < 0 THEN Len(arr) + to ELSE to
      removed   == Spliced(arr, from, 1)
      movedItem == IF removed = <<>> THEN Undefined ELSE removed[1]
  IN  Splice(Splice(arr, from, 1, <<>>), insertAt, 0, <<movedItem>>)

\* ------------------------------------------------------- array objects
\* which array object newData names when the splices run: "fresh", an array
\* the handler allocated, or "prop", the array passed as the data prop.
\* [...data] allocates
spread_alias == "prop"

spread == "fresh"

\* array.slice() in arrayMove allocates
slice == "fresh"

\* ------------------------------------------------------------- constants
\* the exported table components
DndKitVariants ==
  {"SecondTable", "VirtuosoPlain", "VirtuosoOverlay",
   "DnDKitOverlay", "DnDKitCallback"}
NativeVariants == {"WindowTable", "VirtualizedTable", "ThirdTable"}
Variants == DndKitVariants \cup NativeVariants

\* the showSortableColumn prop, at its default
showSortableColumn == TRUE

\* rowHeight = 40, the default of the prop and the estimateSize of the
\* dnd-kit variants
rowHeight == 40

\* the overscan prop: rows rendered beyond the viewport on either side
overscan == 1

\* identifiers a gesture event can carry: those of the generated rows and one
\* that belongs to no row
ForeignId == MaxRows + 1
EventIds == 1..ForeignId

\* event.over === null
NoOver == -1
\* a null row index in the drag state of VirtualizedDraggableTable
NullIndex == -1

\* text/plain payloads of a native drag: a stringified id, or the empty
\* string getData returns when the drag carries no text
Payloads == {String(i) : i \in EventIds} \cup {""}

VARIABLES
  variant,          \* which table component the parent mounted
  hasOnReorder,     \* whether the optional onReorder prop is supplied
  data,             \* the parent's data array (the data prop)
  sorting,          \* useState<SortingState>([])
  activeId,         \* useState<number>() of the drag-overlay variants
  isDragging,       \* VirtualizedDraggableTable drag state
  draggedRowIndex,  \* VirtualizedDraggableTable drag state
  overRowIndex,     \* VirtualizedDraggableTable drag state
  session,          \* the drag in progress in the recognizer / the browser
  ev,               \* the last event handled, with the state it found
  allValid,         \* every gesture so far named rows present in data
  initialData,      \* the data array the parent started with
  handlerData,      \* the data array the mounted handleDragEnd closes over
  gesture,          \* the current or last gesture: how it ended and how
                    \* often it invoked onReorder
  scrollOffset,     \* scrollTop of the virtualizer's scroll element, in px
  lastMove          \* the committed dnd-kit move of the same row that
                    \* the gesture in progress directly follows, if any

vars == <<variant, hasOnReorder, data, sorting, activeId, isDragging,
          draggedRowIndex, overRowIndex, session, ev, allValid,
          initialData, handlerData, gesture, scrollOffset, lastMove>>

Idle == [phase |-> "idle", source |-> "none", active |-> Undefined,
         payload |-> "", sourceMounted |-> TRUE]

NoEvent == [op |-> "none", active |-> Undefined, over |-> NoOver,
            rowIndex |-> NullIndex, payload |-> "", data0 |-> <<>>,
            sorting0 |-> <<>>, called |-> FALSE, published |-> <<>>,
            propAfter |-> <<>>, publishedObject |-> "none",
            previous |-> <<>>,
            previousMove |-> [active |-> Undefined, over |-> -1,
                              data0 |-> <<>>]]

\* no committed dnd-kit move of the same row directly before
NoMove == [active |-> Undefined, over |-> NoOver, data0 |-> <<>>]

\* no gesture yet, and a gesture that has just started
NoGesture == [outcome |-> "none", calls |-> 0, published |-> <<>>]

GestureStarted == [gesture EXCEPT !.outcome = "pending", !.calls = 0]

\* the rows currently displayed
rows == getRowModel(data, sorting)

\* ------------------------------------------------------------ virtualizer
\* the variants that render their rows through useVirtualizer and spacers
virtualized ==
  variant \in {"DnDKitOverlay", "DnDKitCallback", "WindowTable",
               "VirtualizedTable", "ThirdTable"}

\* rowVirtualizer.getTotalSize(): count rows of estimateSize() each
getTotalSize == Len(rows) * rowHeight

\* the scroll positions the scroll element can take, one row at a time
ScrollOffsets ==
  {k * rowHeight : k \in 0..Max(0, Len(rows) - ViewportRows)}

\* getVirtualItems() at a scroll position: the rows of the viewport and
\* overscan rows on either side, each with its index, start and end
getVirtualItems(offset) ==
  LET startIndex == offset \div rowHeight
      endIndex   == startIndex + ViewportRows - 1
      first      == Max(0, startIndex - overscan)
      last       == Min(Len(rows) - 1, endIndex + overscan)
  IN  [k \in 1..(last - first + 1) |->
         [index |-> first + k - 1,
          start |-> (first + k - 1) * rowHeight,
          end   |-> (first + k) * rowHeight]]

virtualRows == getVirtualItems(scrollOffset)

\* virtualRows.map(...): the displayed row of this index has a row element
renderedAt(offset, rowIndex) ==
  \E k \in 1..Len(getVirtualItems(offset)) :
     getVirtualItems(offset)[k].index = rowIndex

rendered(rowIndex) == renderedAt(scrollOffset, rowIndex)

\* virtualizer.options.scrollMargin, left at its default
scrollMargin == 0

\* the spacer rows around the rendered rows. The dnd-kit variants compute
\* [before, after], [0, 0] without virtual items; the native variants render
\* their two spacer rows only when virtualRows.length > 0
spacersRendered(offset) ==
  IF variant \in DndKitVariants THEN TRUE
  ELSE Len(getVirtualItems(offset)) > 0

\* notUndefined(virtualRows[0]).start - scrollMargin, virtualRows[0].start
spacerBefore(offset) ==
  LET items == getVirtualItems(offset)
  IN  IF Len(items) > 0
      THEN IF variant \in DndKitVariants
           THEN items[1].start - scrollMargin ELSE items[1].start
      ELSE 0

\* the trailing spacer measured from the start of the last rendered row
spacerAfter_fromStart(offset) ==
  LET items == getVirtualItems(offset)
  IN  IF Len(items) > 0
      THEN getTotalSize - items[Len(items)].start
      ELSE 0

\* getTotalSize() - virtualRows[virtualRows.length - 1].end, in the native
\* variants with `?.end || 0`
spacerAfter(offset) ==
  LET items == getVirtualItems(offset)
      end   == items[Len(items)].end
  IN  IF Len(items) > 0
      THEN IF variant \in DndKitVariants
           THEN getTotalSize - end
           ELSE getTotalSize - (IF end # 0 THEN end ELSE 0)
      ELSE 0

\* rendering reads row.original.id of every row: a data array holding
\* undefined makes the render throw and the component tree unmount
crashed == \E i \in 1..Len(data) : data[i] = Undefined

Init ==
  /\ variant \in Variants
  /\ hasOnReorder \in BOOLEAN
  /\ \E count \in 0..MaxRows : data = generateData(count)
  /\ initialData = data
  /\ handlerData = data
  /\ sorting = <<>>
  /\ activeId = Undefined
  /\ isDragging = FALSE
  /\ draggedRowIndex = NullIndex
  /\ overRowIndex = NullIndex
  /\ session = Idle
  /\ ev = NoEvent
  /\ allValid = TRUE
  /\ gesture = NoGesture
  /\ scrollOffset = 0
  /\ lastMove = NoMove

\* the variants whose handleDragEnd is memoised with useCallback
memoised ==
  variant \in {"DnDKitCallback", "WindowTable", "VirtualizedTable",
               "ThirdTable"}

\* a dependency list that leaves data out
depsNameData_omitted == FALSE

\* the useCallback dependency lists of handleDragEnd name data
depsNameData == TRUE

\* the data array handleDragEnd closes over after the render that receives
\* newData as the data prop: a handler that is not memoised is a new closure
\* at every render, a memoised one when a dependency changed
closureAfterRender(newData) ==
  IF ~memoised \/ depsNameData THEN newData ELSE handlerData

\* onReorder?.(newData): the parent stores the published array (App passes
\* setData as onReorder) and the table renders with it
onReorder(newData) ==
  IF hasOnReorder
  THEN data' = newData /\ handlerData' = closureAfterRender(newData)
  ELSE UNCHANGED <<data, handlerData>>

\* ------------------------------------------------------------ sort toggle
\* a toggle that also hands the sorted rows to onReorder
ToggleSort_publishesRows(columnId, multi) ==
  /\ ~crashed
  /\ variant = "VirtualizedTable" => ~isDragging
  /\ sorting' = toggleSorting(sorting, columnId, multi)
  /\ onReorder(getRowModel(data, sorting'))
  /\ ev' = [NoEvent EXCEPT !.op = "toggleSort", !.data0 = data,
                           !.sorting0 = sorting]
  /\ lastMove' = NoMove
  /\ UNCHANGED <<scrollOffset, initialData, variant, hasOnReorder, activeId, isDragging,
                 draggedRowIndex, overRowIndex, session, allValid, gesture>>

\* header onClick = column.getToggleSortingHandler() of a sortable column;
\* VirtualizedDraggableTable leaves onClick undefined while isDragging
ToggleSort(columnId, multi) ==
  /\ ~crashed
  /\ variant = "VirtualizedTable" => ~isDragging
  /\ sorting' = toggleSorting(sorting, columnId, multi)
  /\ ev' = [NoEvent EXCEPT !.op = "toggleSort", !.data0 = data,
                           !.sorting0 = sorting]
  /\ lastMove' = NoMove
  /\ UNCHANGED <<scrollOffset, initialData, handlerData, variant, hasOnReorder, data, activeId, isDragging,
                 draggedRowIndex, overRowIndex, session, allValid, gesture>>

\* the array object the mounted variant's handler splices and publishes
newDataObject == IF variant = "VirtuosoOverlay" THEN slice ELSE spread

\* the items prop of SortableContext: rows.map((row) => row.original.id),
\* in the second DnDKitTable variant data.map((item) => item.id)
SortableContext_items ==
  IF variant = "DnDKitCallback"
  THEN [k \in 1..Len(data) |-> IdOf(data[k])]
  ELSE [k \in 1..Len(rows) |-> IdOf(rows[k])]

\* --------------------------------------------------- dnd-kit drag session
present(id) == findIndexById(data, id) # -1

\* DndContext onDragStart: the recognizer activates a drag of `active`;
\* the drag-overlay variants store it with setActiveId
DragStart(active) ==
  /\ variant \in DndKitVariants
  /\ ~crashed
  /\ session.phase = "idle"
  /\ session' = [phase |-> "dragging", source |-> "row", active |-> active,
                 payload |-> "", sourceMounted |-> TRUE]
  /\ activeId' = IF variant \in {"VirtuosoOverlay", "DnDKitOverlay"}
                 THEN active ELSE activeId
  /\ ev' = [NoEvent EXCEPT !.op = "dragStart", !.active = active,
                           !.data0 = data, !.sorting0 = sorting]
  /\ gesture' = GestureStarted
  /\ lastMove' = IF active = lastMove.active THEN lastMove ELSE NoMove
  /\ UNCHANGED <<scrollOffset, initialData, handlerData, variant, hasOnReorder, data, sorting, isDragging,
                 draggedRowIndex, overRowIndex, allValid>>

\* a cancel that also resets the sort state
DragCancel_clearsSort ==
  /\ variant \in DndKitVariants
  /\ ~crashed
  /\ session.phase = "dragging"
  /\ session' = Idle
  /\ activeId' = Undefined
  /\ sorting' = <<>>
  /\ ev' = [NoEvent EXCEPT !.op = "dragCancel", !.active = session.active,
                           !.data0 = data, !.sorting0 = sorting]
  /\ gesture' = [gesture EXCEPT !.outcome = "cancelled"]
  /\ lastMove' = NoMove
  /\ UNCHANGED <<scrollOffset, initialData, handlerData, variant, hasOnReorder, data, isDragging,
                 draggedRowIndex, overRowIndex, allValid>>

\* DndContext onDragCancel: () => setActiveId(undefined) where supplied
DragCancel ==
  /\ variant \in DndKitVariants
  /\ ~crashed
  /\ session.phase = "dragging"
  /\ session' = Idle
  /\ activeId' = IF variant \in {"VirtuosoOverlay", "DnDKitOverlay"}
                 THEN Undefined ELSE activeId
  /\ ev' = [NoEvent EXCEPT !.op = "dragCancel", !.active = session.active,
                           !.data0 = data, !.sorting0 = sorting]
  /\ gesture' = [gesture EXCEPT !.outcome = "cancelled"]
  /\ lastMove' = NoMove
  /\ UNCHANGED <<scrollOffset, initialData, handlerData, variant, hasOnReorder, data, sorting, isDragging,
                 draggedRowIndex, overRowIndex, allValid>>

\* how a dnd-kit gesture ended: on no target, on the row it started from,
\* on another row, or naming an id that is in no row
dragOutcome(active, over) ==
  CASE over = NoOver                        -> "noTarget"
    [] ~present(active) \/ ~present(over)   -> "missingRow"
    [] active = over                        -> "sameRow"
    [] OTHER                                -> "otherRow"

\* what every dnd-kit drag-end handler leaves behind besides data and
\* activeId: the recognizer is idle again and the event is on record
endOfDrag(over, commit, newData) ==
  /\ session' = Idle
  /\ ev' = [op |-> "dragEnd", active |-> session.active, over |-> over,
            rowIndex |-> NullIndex, payload |-> "", data0 |-> data,
            sorting0 |-> sorting, called |-> commit /\ hasOnReorder,
            published |-> IF commit /\ hasOnReorder THEN newData ELSE <<>>,
            propAfter |-> IF commit /\ newDataObject = "prop"
                          THEN newData ELSE data,
            publishedObject |-> IF commit /\ hasOnReorder
                                THEN newDataObject ELSE "none",
            previous |-> gesture.published,
            previousMove |-> lastMove]
  /\ lastMove' = IF commit /\ hasOnReorder
                 THEN [active |-> session.active, over |-> over,
                       data0 |-> data]
                 ELSE NoMove
  /\ allValid' = (allValid /\
                  (over = NoOver \/ (present(session.active) /\ present(over))))
  /\ gesture' = [outcome |-> dragOutcome(session.active, over),
                  calls |-> gesture.calls +
                            (IF commit /\ hasOnReorder THEN 1 ELSE 0),
                  published |-> IF commit /\ hasOnReorder
                                THEN newData ELSE gesture.published]
  /\ UNCHANGED <<scrollOffset, initialData, variant, hasOnReorder, sorting, isDragging,
                 draggedRowIndex, overRowIndex>>

\* SecondTable.tsx handleDragEnd: the guard, the array it builds, the
\* handler
\* the guard without the dropped-on-itself test
SecondTable_commits_onSelf(active, over) ==
  over # NoOver

SecondTable_commits(active, over) ==
  over # NoOver /\ active # over

SecondTable_newData(active, over) ==
  LET oldIndex == findIndexById(handlerData, active)
      newIndex == findIndexById(handlerData, over)
  IN  spliceMove(handlerData, oldIndex, newIndex)

SecondTable_handleDragEnd(over) ==
  /\ variant = "SecondTable"
  /\ ~crashed
  /\ session.phase = "dragging"
  /\ LET commit  == SecondTable_commits(session.active, over)
         newData == SecondTable_newData(session.active, over)
     IN  /\ IF commit THEN onReorder(newData) ELSE UNCHANGED <<data, handlerData>>
         /\ endOfDrag(over, commit, newData)
  /\ UNCHANGED activeId

\* VirtuosoTable.tsx, first component: handleDragEnd
\* the guard without the test for a drag that ended over no target
VirtuosoPlain_commits_noOverTest(active, over) ==
  active # over

VirtuosoPlain_commits(active, over) ==
  over # NoOver /\ active # over

VirtuosoPlain_newData(active, over) ==
  LET oldIndex == findIndexById(handlerData, active)
      newIndex == findIndexById(handlerData, over)
  IN  spliceMove(handlerData, oldIndex, newIndex)

VirtuosoPlain_handleDragEnd(over) ==
  /\ variant = "VirtuosoPlain"
  /\ ~crashed
  /\ session.phase = "dragging"
  /\ LET commit  == VirtuosoPlain_commits(session.active, over)
         newData == VirtuosoPlain_newData(session.active, over)
     IN  /\ IF commit THEN onReorder(newData) ELSE UNCHANGED <<data, handlerData>>
         /\ endOfDrag(over, commit, newData)
  /\ UNCHANGED activeId

\* VirtuosoTable.tsx, drag-overlay component: handleDragEnd returns before
\* setActiveId(undefined) when over is null
VirtuosoOverlay_commits(active, over) ==
  over # NoOver /\ active # over

VirtuosoOverlay_newData(active, over) ==
  LET oldIndex == findIndexById(handlerData, active)
      newIndex == findIndexById(handlerData, over)
  IN  arrayMove(handlerData, oldIndex, newIndex)

VirtuosoOverlay_handleDragEnd(over) ==
  /\ variant = "VirtuosoOverlay"
  /\ ~crashed
  /\ session.phase = "dragging"
  /\ LET commit  == VirtuosoOverlay_commits(session.active, over)
         newData == VirtuosoOverlay_newData(session.active, over)
     IN  /\ IF commit THEN onReorder(newData) ELSE UNCHANGED <<data, handlerData>>
         /\ endOfDrag(over, commit, newData)
  /\ activeId' = IF over = NoOver THEN activeId ELSE Undefined

\* DnDKitTable.tsx, SecondDraggableVirtualTable: handleDragEnd
DnDKitOverlay_commits(active, over) ==
  over # NoOver /\ active # over

DnDKitOverlay_newData(active, over) ==
  LET oldIndex == findIndexById(handlerData, active)
      newIndex == findIndexById(handlerData, over)
  IN  spliceMove(handlerData, oldIndex, newIndex)

DnDKitOverlay_handleDragEnd(over) ==
  /\ variant = "DnDKitOverlay"
  /\ ~crashed
  /\ session.phase = "dragging"
  /\ LET commit  == DnDKitOverlay_commits(session.active, over)
         newData == DnDKitOverlay_newData(session.active, over)
     IN  /\ IF commit THEN onReorder(newData) ELSE UNCHANGED <<data, handlerData>>
         /\ endOfDrag(over, commit, newData)
  /\ activeId' = Undefined

\* DnDKitTable.tsx, DraggableVirtualTable: handleDragEnd (useCallback),
\* which requires onReorder and returns when an index is -1
\* the guard without the return on an index of -1
DnDKitCallback_commits_unguarded(active, over) ==
  over # NoOver /\ active # over /\ hasOnReorder

DnDKitCallback_commits(active, over) ==
  /\ over # NoOver /\ active # over /\ hasOnReorder
  /\ findIndexById(handlerData, active) # -1
  /\ findIndexById(handlerData, over) # -1

\* the dragged row inserted one index after the over row's
DnDKitCallback_newData_afterOver(active, over) ==
  LET activeIndex == findIndexById(handlerData, active)
      overIndex == findIndexById(handlerData, over)
  IN  spliceMove(handlerData, activeIndex, overIndex + 1)

DnDKitCallback_newData(active, over) ==
  LET activeIndex == findIndexById(handlerData, active)
      overIndex == findIndexById(handlerData, over)
  IN  spliceMove(handlerData, activeIndex, overIndex)

DnDKitCallback_handleDragEnd(over) ==
  /\ variant = "DnDKitCallback"
  /\ ~crashed
  /\ session.phase = "dragging"
  /\ LET commit  == DnDKitCallback_commits(session.active, over)
         newData == DnDKitCallback_newData(session.active, over)
     IN  /\ IF commit THEN onReorder(newData) ELSE UNCHANGED <<data, handlerData>>
         /\ endOfDrag(over, commit, newData)
  /\ UNCHANGED activeId

\* ---------------------------------------------------- native drag session
\* the displayed row indices a drop or a drag start can name
RowIndexes == 0..(Len(rows) - 1)

\* a row that stays draggable while a sort is active
draggable_whileSorted ==
  showSortableColumn /\ variant \in {"VirtualizedTable", "ThirdTable"}

\* draggable attribute of a row
draggable ==
  CASE variant = "VirtualizedTable" -> showSortableColumn /\ Len(sorting) = 0
    [] variant = "ThirdTable"       -> showSortableColumn
    [] OTHER                        -> FALSE

\* onDragStart of a row: setData("text/plain", String(row.original.id));
\* VirtualizedDraggableTable also sets isDragging and draggedRowIndex
onDragStart(rowIndex) ==
  /\ variant \in {"VirtualizedTable", "ThirdTable"}
  /\ ~crashed
  /\ session.phase = "idle"
  /\ rowIndex \in RowIndexes
  /\ rendered(rowIndex)
  /\ draggable
  /\ session' = [phase |-> "dragging", source |-> "row",
                 active |-> Undefined,
                 payload |-> String(IdOf(At(rows, rowIndex))),
                 sourceMounted |-> TRUE]
  /\ IF variant = "VirtualizedTable"
     THEN isDragging' = TRUE /\ draggedRowIndex' = rowIndex
     ELSE UNCHANGED <<isDragging, draggedRowIndex>>
  /\ ev' = [NoEvent EXCEPT !.op = "rowDragStart", !.rowIndex = rowIndex,
                           !.data0 = data, !.sorting0 = sorting]
  /\ gesture' = GestureStarted
  /\ lastMove' = NoMove
  /\ UNCHANGED <<scrollOffset, initialData, handlerData, variant, hasOnReorder, data, sorting, activeId,
                 overRowIndex, allValid>>

\* a drag that started outside the table enters it, carrying any payload
ExternalDragEnter(payload) ==
  /\ variant \in NativeVariants
  /\ ~crashed
  /\ session.phase = "idle"
  /\ session' = [phase |-> "dragging", source |-> "external",
                 active |-> Undefined, payload |-> payload,
                 sourceMounted |-> TRUE]
  /\ ev' = [NoEvent EXCEPT !.op = "externalDragEnter", !.payload = payload,
                           !.data0 = data, !.sorting0 = sorting]
  /\ gesture' = GestureStarted
  /\ lastMove' = NoMove
  /\ UNCHANGED <<scrollOffset, initialData, handlerData, variant, hasOnReorder, data, sorting, activeId, isDragging,
                 draggedRowIndex, overRowIndex, allValid>>

\* onDragOver of a row of VirtualizedDraggableTable: setOverRowIndex
onDragOver(rowIndex) ==
  /\ variant = "VirtualizedTable"
  /\ ~crashed
  /\ session.phase = "dragging"
  /\ rowIndex \in RowIndexes
  /\ rendered(rowIndex)
  /\ overRowIndex' = rowIndex
  /\ ev' = [NoEvent EXCEPT !.op = "rowDragOver", !.rowIndex = rowIndex,
                           !.data0 = data, !.sorting0 = sorting]
  /\ lastMove' = NoMove
  /\ UNCHANGED <<scrollOffset, initialData, handlerData, variant, hasOnReorder, data, sorting, activeId, isDragging,
                 draggedRowIndex, session, allValid, gesture>>

\* how a native gesture ended: with a payload that is the id of no row, on
\* the displayed row that is the dragged row, or on another displayed row
dropOutcome(draggedId, rowIndex) ==
  CASE findIndexByString(data, draggedId) = -1 -> "missingRow"
    [] String(IdOf(At(rows, rowIndex))) = draggedId -> "sameRow"
    [] OTHER -> "otherRow"

\* what every drop handler leaves behind besides data, sorting and the drag
\* state: a row drag still owes its dragend event, an external one is over
endOfDrop(rowIndex, commit, newData) ==
  /\ session' = IF session.source = "row"
                THEN [session EXCEPT !.phase = "dropped"] ELSE Idle
  /\ ev' = [op |-> "drop", active |-> Undefined, over |-> NoOver,
            rowIndex |-> rowIndex, payload |-> session.payload,
            data0 |-> data, sorting0 |-> sorting,
            called |-> commit /\ hasOnReorder,
            published |-> IF commit /\ hasOnReorder THEN newData ELSE <<>>,
            propAfter |-> IF commit /\ newDataObject = "prop"
                          THEN newData ELSE data,
            publishedObject |-> IF commit /\ hasOnReorder
                                THEN newDataObject ELSE "none",
            previous |-> gesture.published,
            previousMove |-> lastMove]
  /\ lastMove' = NoMove
  /\ allValid' = (allValid /\ findIndexByString(data, session.payload) # -1)
  /\ gesture' = [outcome |-> dropOutcome(session.payload, rowIndex),
                  calls |-> gesture.calls +
                            (IF commit /\ hasOnReorder THEN 1 ELSE 0),
                  published |-> IF commit /\ hasOnReorder
                                THEN newData ELSE gesture.published]
  /\ UNCHANGED <<scrollOffset, initialData, variant, hasOnReorder, activeId>>

\* WindowTable.tsx handleDragEnd(event, rowIndex), the onDrop of a row: the
\* guard, the target index, the array it builds, the sort reset, the handler
WindowTable_commits(draggedId, rowIndex) ==
  LET draggedSortedIndex == findIndexByString(rows, draggedId)
  IN  draggedSortedIndex # -1 /\ draggedSortedIndex # rowIndex

\* the drop row's displayed index taken as its index in data
WindowTable_targetDisplayedIndex(rowIndex) ==
  rowIndex

\* data.indexOf(rows[rowIndex].original)
WindowTable_targetOriginalIndex(rowIndex) ==
  indexOf(handlerData, At(rows, rowIndex))

WindowTable_newData(draggedId, rowIndex) ==
  LET sourceOriginalIndex == findIndexByString(handlerData, draggedId)
      targetOriginalIndex == WindowTable_targetOriginalIndex(rowIndex)
  IN  spliceMoveItem(handlerData, sourceOriginalIndex, targetOriginalIndex)

\* the sort state left as it is
WindowTable_sortingKept(commit) ==
  sorting

\* if (sorting.length) setSorting([])
WindowTable_sortingAfter(commit) ==
  IF commit /\ Len(sorting) # 0 THEN <<>> ELSE sorting

WindowTable_handleDragEnd(rowIndex) ==
  /\ variant = "WindowTable"
  /\ ~crashed
  /\ session.phase = "dragging"
  /\ rowIndex \in RowIndexes
  /\ rendered(rowIndex)
  /\ LET commit  == WindowTable_commits(session.payload, rowIndex)
         newData == WindowTable_newData(session.payload, rowIndex)
     IN  /\ IF commit THEN onReorder(newData) ELSE UNCHANGED <<data, handlerData>>
         /\ sorting' = WindowTable_sortingAfter(commit)
         /\ endOfDrop(rowIndex, commit, newData)
  /\ UNCHANGED <<isDragging, draggedRowIndex, overRowIndex>>

\* part_000 handleDragEnd(event, rowIndex), the onDrop of a row; it ends
\* with resetDragState()
VirtualizedTable_commits(draggedId, rowIndex) ==
  LET draggedSortedIndex == findIndexByString(rows, draggedId)
  IN  draggedSortedIndex # -1 /\ draggedSortedIndex # rowIndex

\* the drop row's displayed index taken as its index in data
VirtualizedTable_targetDisplayedIndex(rowIndex) ==
  rowIndex

\* data.indexOf(rows[rowIndex].original)
VirtualizedTable_targetOriginalIndex(rowIndex) ==
  indexOf(handlerData, At(rows, rowIndex))

VirtualizedTable_newData(draggedId, rowIndex) ==
  LET sourceOriginalIndex == findIndexByString(handlerData, draggedId)
      targetOriginalIndex == VirtualizedTable_targetOriginalIndex(rowIndex)
  IN  spliceMoveItem(handlerData, sourceOriginalIndex, targetOriginalIndex)

\* if (sorting.length) setSorting([])
VirtualizedTable_sortingAfter(commit) ==
  IF commit /\ Len(sorting) # 0 THEN <<>> ELSE sorting

VirtualizedTable_handleDragEnd(rowIndex) ==
  /\ variant = "VirtualizedTable"
  /\ ~crashed
  /\ session.phase = "dragging"
  /\ rowIndex \in RowIndexes
  /\ rendered(rowIndex)
  /\ LET commit  == VirtualizedTable_commits(session.payload, rowIndex)
         newData == VirtualizedTable_newData(session.payload, rowIndex)
     IN  /\ IF commit THEN onReorder(newData) ELSE UNCHANGED <<data, handlerData>>
         /\ sorting' = VirtualizedTable_sortingAfter(commit)
         /\ endOfDrop(rowIndex, commit, newData)
  /\ isDragging' = FALSE
  /\ draggedRowIndex' = NullIndex
  /\ overRowIndex' = NullIndex

\* part_001 handleDragEnd(event, rowIndex), the onDrop of a row: the drop
\* row's displayed index is used as the insertion index in data
\* the guard without the test for a payload that matches no row
ThirdTable_commits_unchecked(draggedId, rowIndex) ==
  findIndexByString(handlerData, draggedId) # rowIndex

ThirdTable_commits(draggedId, rowIndex) ==
  LET draggedIndex == findIndexByString(handlerData, draggedId)
  IN  draggedIndex # -1 /\ draggedIndex # rowIndex

\* the insertion index lowered by one when the dragged row was above it
ThirdTable_newData_shifted(draggedId, rowIndex) ==
  LET draggedIndex == findIndexByString(handlerData, draggedId)
  IN  spliceMoveItem(handlerData, draggedIndex,
                     IF draggedIndex < rowIndex THEN rowIndex - 1
                     ELSE rowIndex)

ThirdTable_newData(draggedId, rowIndex) ==
  LET draggedIndex == findIndexByString(handlerData, draggedId)
  IN  spliceMoveItem(handlerData, draggedIndex, rowIndex)

ThirdTable_handleDragEnd(rowIndex) ==
  /\ variant = "ThirdTable"
  /\ ~crashed
  /\ session.phase = "dragging"
  /\ rowIndex \in RowIndexes
  /\ rendered(rowIndex)
  /\ LET commit  == ThirdTable_commits(session.payload, rowIndex)
         newData == ThirdTable_newData(session.payload, rowIndex)
     IN  /\ IF commit THEN onReorder(newData) ELSE UNCHANGED <<data, handlerData>>
         /\ endOfDrop(rowIndex, commit, newData)
  /\ UNCHANGED <<sorting, isDragging, draggedRowIndex, overRowIndex>>

\* part_000 resetDragState
resetDragState ==
  /\ isDragging' = FALSE
  /\ draggedRowIndex' = NullIndex
  /\ overRowIndex' = NullIndex

\* the scroll element of a native-drag variant scrolls, also while a drag
\* is in progress; a source row that leaves the virtual items is unmounted,
\* and the element that mounts when it comes back is a new one
Scroll(offset) ==
  /\ variant \in NativeVariants
  /\ ~crashed
  /\ session.phase \in {"idle", "dragging"}
  /\ offset \in ScrollOffsets
  /\ offset # scrollOffset
  /\ scrollOffset' = offset
  /\ session' =
       IF /\ session.phase = "dragging"
          /\ session.source = "row"
          /\ ~renderedAt(offset, findIndexByString(rows, session.payload))
       THEN [session EXCEPT !.sourceMounted = FALSE]
       ELSE session
  /\ ev' = [NoEvent EXCEPT !.op = "scroll", !.data0 = data,
                           !.sorting0 = sorting]
  /\ lastMove' = NoMove
  /\ UNCHANGED <<initialData, handlerData, variant, hasOnReorder, data,
                 sorting, activeId, isDragging, draggedRowIndex,
                 overRowIndex, allValid, gesture>>

\* the dragend event on the source row, after a drop or a cancelled drag:
\* onDragEnd={resetDragState} in VirtualizedDraggableTable, no handler in
\* ThirdVirtualizedDraggableTable; the event is dispatched on the element
\* the drag started on, and an element that was unmounted has no handler
onDragEnd ==
  /\ variant \in {"VirtualizedTable", "ThirdTable"}
  /\ ~crashed
  /\ session.source = "row"
  /\ session.phase \in {"dragging", "dropped"}
  /\ session' = Idle
  /\ IF variant = "VirtualizedTable" /\ session.sourceMounted
     THEN resetDragState
     ELSE UNCHANGED <<isDragging, draggedRowIndex, overRowIndex>>
  /\ ev' = [NoEvent EXCEPT !.op = IF session.phase = "dropped"
                                   THEN "rowDragEnd" ELSE "rowDragCancel",
                           !.payload = session.payload,
                           !.data0 = data, !.sorting0 = sorting]
  /\ gesture' = IF session.phase = "dropped" THEN gesture
                ELSE [gesture EXCEPT !.outcome = "cancelled"]
  /\ lastMove' = NoMove
  /\ UNCHANGED <<scrollOffset, initialData, handlerData, variant, hasOnReorder, data, sorting, activeId, allValid>>

\* an external drag leaves the table or ends outside any row: no handler
ExternalDragLeave ==
  /\ variant \in NativeVariants
  /\ ~crashed
  /\ session.source = "external"
  /\ session.phase = "dragging"
  /\ session' = Idle
  /\ ev' = [NoEvent EXCEPT !.op = "externalDragLeave",
                           !.payload = session.payload,
                           !.data0 = data, !.sorting0 = sorting]
  /\ gesture' = [gesture EXCEPT !.outcome = "cancelled"]
  /\ lastMove' = NoMove
  /\ UNCHANGED <<scrollOffset, initialData, handlerData, variant, hasOnReorder, data, sorting, activeId, isDragging,
                 draggedRowIndex, overRowIndex, allValid>>

\* ------------------------------------------------------------------ spec
Next ==
  \/ \E columnId \in SortableColumns, multi \in BOOLEAN :
       ToggleSort(columnId, multi)
  \/ \E active \in EventIds : DragStart(active)
  \/ DragCancel
  \/ \E over \in EventIds \cup {NoOver} : SecondTable_handleDragEnd(over)
  \/ \E over \in EventIds \cup {NoOver} : VirtuosoPlain_handleDragEnd(over)
  \/ \E over \in EventIds \cup {NoOver} : VirtuosoOverlay_handleDragEnd(over)
  \/ \E over \in EventIds \cup {NoOver} : DnDKitOverlay_handleDragEnd(over)
  \/ \E over \in EventIds \cup {NoOver} : DnDKitCallback_handleDragEnd(over)
  \/ \E rowIndex \in 0..MaxRows : onDragStart(rowIndex)
  \/ \E payload \in Payloads : ExternalDragEnter(payload)
  \/ \E rowIndex \in 0..MaxRows : onDragOver(rowIndex)
  \/ \E rowIndex \in 0..MaxRows : WindowTable_handleDragEnd(rowIndex)
  \/ \E rowIndex \in 0..MaxRows : VirtualizedTable_handleDragEnd(rowIndex)
  \/ \E rowIndex \in 0..MaxRows : ThirdTable_handleDragEnd(rowIndex)
  \/ onDragEnd
  \/ ExternalDragLeave
  \/ \E k \in 0..MaxRows : Scroll(k * rowHeight)

Spec == Init /\ [][Next]_vars

\* the browser ends every drag it started: a dragend event follows the drag
\* start of a row, after the drop if there was one
LiveSpec == Init /\ [][Next]_vars /\ WF_vars(onDragEnd)

\* ------------------------------------------------ vocabulary of properties
\* the 1-based position of a row in a sequence that holds it
PositionOf(S, row) == CHOOSE k \in 1..Len(S) : S[k] = row

Holds(S, row) == \E k \in 1..Len(S) : S[k] = row

Distinct(S) == \A i, j \in 1..Len(S) : i # j => S[i] # S[j]

\* P holds exactly the rows of the duplicate-free S, each once
IsPermutationOf(P, S) ==
  /\ Len(P) = Len(S)
  /\ \A k \in 1..Len(S) :
       Cardinality({j \in 1..Len(P) : P[j] = S[k]}) = 1

\* S with the row at position s moved to position t (1-based), the rows in
\* between shifted by one towards s
MovedTo(S, s, t) ==
  [k \in 1..Len(S) |->
     IF k = t THEN S[s]
     ELSE IF s < t /\ s <= k /\ k < t THEN S[k + 1]
     ELSE IF t < s /\ t < k /\ k <= s THEN S[k - 1]
     ELSE S[k]]

\* the last event was a dnd-kit drag end naming two rows of data
DragEndOnRows ==
  /\ ev.op = "dragEnd"
  /\ Holds(ev.data0, ev.active)
  /\ Holds(ev.data0, ev.over)

\* the rows displayed when the last event arrived
rows0 == getRowModel(ev.data0, ev.sorting0)

\* the last event was a drop whose payload is the stringified id of a row
DropOfRow ==
  /\ ev.op = "drop"
  /\ \E k \in 1..Len(ev.data0) : String(IdOf(ev.data0[k])) = ev.payload

\* the row dragged and the row dropped on in the last drop event
draggedRow ==
  ev.data0[CHOOSE k \in 1..Len(ev.data0) :
             String(IdOf(ev.data0[k])) = ev.payload]
targetRow == rows0[ev.rowIndex + 1]

\* ------------------------------------------------------------- properties
\* C1: as long as every gesture named rows present in data, the data array
\* is a permutation of the initial one: same length, every initial row
\* exactly once, no undefined entry, ids pairwise distinct.
C1_DataIsPermutation ==
  allValid =>
    /\ IsPermutationOf(data, initialData)
    /\ Distinct(data)
    /\ \A k \in 1..Len(data) : data[k] # Undefined

\* a reorder committed under an active sort, after valid gestures only
C1_Witness ==
  /\ allValid
  /\ ev.called
  /\ ev.sorting0 # <<>>
  /\ data # initialData
  /\ data # ev.data0
  /\ Len(data) = MaxRows

\* C2: a committed dnd-kit move of the row at index s onto the row at index
\* t puts the dragged row at index t, shifts the rows in between by one
\* towards s and leaves every row outside [min(s,t), max(s,t)] in place.
C2_MoveSemantics ==
  (variant \in DndKitVariants /\ DragEndOnRows /\ ev.called) =>
    LET S == ev.data0
        P == ev.published
        s == PositionOf(S, ev.active)
        t == PositionOf(S, ev.over)
    IN  /\ Len(P) = Len(S)
        /\ P[t] = ev.active
        /\ s < t => \A k \in (s + 1)..t : P[k - 1] = S[k]
        /\ s > t => \A k \in t..(s - 1) : P[k + 1] = S[k]
        /\ \A k \in 1..Len(S) :
             (k < Min(s, t) \/ k > Max(s, t)) => P[k] = S[k]

\* a committed two-splice move across at least one row in between
C2_Witness ==
  /\ variant \in {"SecondTable", "DnDKitCallback"}
  /\ DragEndOnRows
  /\ ev.called
  /\ PositionOf(ev.data0, ev.over) - PositionOf(ev.data0, ev.active) >= 2

\* C3: in a committed move of row a onto row b, any two rows other than a
\* keep their relative order.
C3_OrderStable ==
  ((DragEndOnRows \/ DropOfRow) /\ ev.called) =>
    LET S == ev.data0
        P == ev.published
        a == IF ev.op = "drop" THEN draggedRow ELSE ev.active
    IN  \A x, y \in {S[k] : k \in 1..Len(S)} \ {a} :
          /\ Holds(P, x)
          /\ Holds(P, y)
          /\ PositionOf(S, x) < PositionOf(S, y)
               => PositionOf(P, x) < PositionOf(P, y)

\* an arrayMove commit that carried the dragged row past another row
C3_Witness ==
  /\ variant = "VirtuosoOverlay"
  /\ DragEndOnRows
  /\ ev.called
  /\ PositionOf(ev.data0, ev.active) - PositionOf(ev.data0, ev.over) >= 2

\* C4: in WindowTable and part_000, with onReorder supplied, a drop of row a
\* on the displayed row b # a publishes data with a moved to the index b has
\* in data, whatever the sort state and whatever b's displayed index.
C4_TargetResolvedInData ==
  (/\ variant \in {"WindowTable", "VirtualizedTable"}
   /\ hasOnReorder
   /\ DropOfRow
   /\ targetRow # draggedRow) =>
    /\ ev.called
    /\ ev.published = MovedTo(ev.data0, PositionOf(ev.data0, draggedRow),
                              PositionOf(ev.data0, targetRow))

\* a drop under an active sort on a row displayed away from its data index
C4_Witness ==
  /\ variant = "VirtualizedTable"
  /\ hasOnReorder
  /\ DropOfRow
  /\ ev.sorting0 # <<>>
  /\ targetRow # draggedRow
  /\ PositionOf(ev.data0, targetRow) # ev.rowIndex + 1
  /\ ev.called

\* C5: in part_001, with onReorder supplied and a sort that displays the rows
\* in another order than data, a drop of row a on the displayed row b # a
\* publishes a sequence with a at the index b had in data.
C5_ThirdResolvesById ==
  (/\ variant = "ThirdTable"
   /\ hasOnReorder
   /\ DropOfRow
   /\ ev.sorting0 # <<>>
   /\ rows0 # ev.data0
   /\ targetRow # draggedRow) =>
    /\ ev.called
    /\ ev.published[PositionOf(ev.data0, targetRow)] = draggedRow

\* the drop of the scenario: data [1,2,3] displayed as [3,2,1], row 3
\* dropped on the displayed row of id 1, onReorder supplied
C6_Scenario ==
  /\ variant = "WindowTable"
  /\ hasOnReorder
  /\ ev.op = "drop"
  /\ ev.data0 = <<1, 2, 3>>
  /\ rows0 = <<3, 2, 1>>
  /\ ev.payload = "3"
  /\ ev.rowIndex = 2

\* C6 as stated: the scenario publishes [2,1,3] and leaves the sort empty.
C6_SpecExample ==
  C6_Scenario =>
    /\ ev.called
    /\ ev.published = <<2, 1, 3>>
    /\ sorting = <<>>

\* C6 amended: the scenario publishes [3,1,2], row 3 at the index row 1 had
\* in data, and leaves the sort empty.
C6_Amended ==
  C6_Scenario =>
    /\ ev.called
    /\ ev.published = <<3, 1, 2>>
    /\ data = <<3, 1, 2>>
    /\ sorting = <<>>

C6_Witness ==
  /\ C6_Scenario
  /\ ev.called
  /\ ev.sorting0 = <<[id |-> "firstName", desc |-> TRUE]>>

\* C7: in WindowTable and part_000, after every drop that invoked onReorder
\* the sort state is the empty list.
C7_SortClearedOnCommit ==
  (/\ variant \in {"WindowTable", "VirtualizedTable"}
   /\ ev.op = "drop"
   /\ ev.called) =>
    sorting = <<>>

\* a committed drop that found a sort active
C7_Witness ==
  /\ variant = "WindowTable"
  /\ ev.op = "drop"
  /\ ev.called
  /\ ev.sorting0 # <<>>
  /\ sorting = <<>>

\* C8: in the dnd-kit variants and part_001, a gesture that invoked
\* onReorder while a sort was active leaves the sort state empty.
C8_SortClearedByDndKit ==
  (/\ variant \in DndKitVariants \cup {"ThirdTable"}
   /\ (DragEndOnRows \/ DropOfRow)
   /\ ev.called
   /\ ev.sorting0 # <<>>) =>
    sorting = <<>>

\* the last gesture ended on the row it started from
EndedOnSameRow ==
  \/ /\ variant \in DndKitVariants
     /\ ev.op = "dragEnd"
     /\ ev.active = ev.over
  \/ /\ variant \in {"WindowTable", "VirtualizedTable"}
     /\ DropOfRow
     /\ targetRow = draggedRow

\* C9: in the dnd-kit variants, WindowTable and part_000, a gesture that ends
\* on the row it started from never invokes onReorder and leaves data and
\* the sort state as they were.
C9_SelfDropIsNoOp ==
  EndedOnSameRow =>
    /\ ~ev.called
    /\ data = ev.data0
    /\ sorting = ev.sorting0

\* a row dropped on itself while a sort is active
C9_Witness ==
  /\ EndedOnSameRow
  /\ variant = "SecondTable"
  /\ Holds(ev.data0, ev.active)
  /\ ev.sorting0 # <<>>
  /\ Len(ev.data0) = MaxRows

\* C10: in part_001, for every sort state, a row dropped on itself leaves
\* data identical and does not invoke onReorder.
C10_ThirdSelfDropIsNoOp ==
  (/\ variant = "ThirdTable"
   /\ DropOfRow
   /\ targetRow = draggedRow) =>
    /\ ~ev.called
    /\ data = ev.data0

\* the last event was a dnd-kit drag end on a table with rows, over some
\* target different from the dragged row, in which active or over is the id
\* of no row of data
DragEndOnMissingRow ==
  /\ ev.op = "dragEnd"
  /\ ev.data0 # <<>>
  /\ ev.over # NoOver
  /\ ev.active # ev.over
  /\ (~Holds(ev.data0, ev.active) \/ ~Holds(ev.data0, ev.over))

\* C11: in SecondTable, both VirtuosoTable variants and the first DnDKitTable
\* variant, a drag end naming an id that is in no row of data publishes no
\* sequence that differs from data and leaves data as it was.
C11_MissingIdIsNoOp ==
  (/\ variant \in {"SecondTable", "VirtuosoPlain", "VirtuosoOverlay",
                   "DnDKitOverlay"}
   /\ DragEndOnMissingRow) =>
    /\ ev.called => ev.published = ev.data0
    /\ data = ev.data0

\* C12: in the second DnDKitTable variant, a drag end in which active or
\* over is the id of no row of data never invokes onReorder and leaves data
\* unchanged.
C12_CallbackIgnoresMissingId ==
  (/\ variant = "DnDKitCallback"
   /\ ev.op = "dragEnd"
   /\ (~Holds(ev.data0, ev.active) \/ ~Holds(ev.data0, ev.over))) =>
    /\ ~ev.called
    /\ data = ev.data0

\* a drag end that passes the first guard and names a missing row
C12_Witness ==
  /\ variant = "DnDKitCallback"
  /\ hasOnReorder
  /\ DragEndOnMissingRow
  /\ Holds(ev.data0, ev.active)
  /\ Len(ev.data0) = MaxRows

\* the last event was a drop whose payload is the stringified id of no row
DropOfForeignPayload ==
  /\ ev.op = "drop"
  /\ \A k \in 1..Len(ev.data0) : String(IdOf(ev.data0[k])) # ev.payload

\* C13: in WindowTable, part_000 and part_001, a drop whose text/plain
\* payload is the stringified id of no row never invokes onReorder and
\* leaves the sort state and data as they were; the handler reads no row on
\* that path, so it has nothing to throw on.
C13_ForeignPayloadIsNoOp ==
  (variant \in NativeVariants /\ DropOfForeignPayload) =>
    /\ ~ev.called
    /\ sorting = ev.sorting0
    /\ data = ev.data0

\* a drop from outside the table on a sorted table with rows
C13_Witness ==
  /\ variant = "ThirdTable"
  /\ hasOnReorder
  /\ DropOfForeignPayload
  /\ ev.sorting0 # <<>>
  /\ Len(ev.data0) = MaxRows

GestureMovedRow ==
  /\ ev.op \in {"dragEnd", "drop", "rowDragEnd"}
  /\ gesture.outcome = "otherRow"

\* the last event ended a gesture that asked for no move: no target, the
\* dragged row itself, or a cancelled drag
GestureWasNoOp ==
  /\ ev.op \in {"dragEnd", "drop", "rowDragEnd", "dragCancel",
                "rowDragCancel", "externalDragLeave"}
  /\ gesture.outcome \in {"noTarget", "sameRow", "cancelled"}

\* C15: with onReorder supplied, a gesture that ends on a row other than the
\* dragged one invokes onReorder exactly once, with a sequence as long as
\* data, and a no-op gesture invokes it zero times; in part_000 the dragend
\* event that follows the drop adds no invocation.
C15_OnceMoveZeroNoOp ==
  hasOnReorder =>
    /\ GestureMovedRow =>
         /\ gesture.calls = 1
         /\ ev.op \in {"dragEnd", "drop"} =>
              Len(ev.published) = Len(ev.data0)
    /\ GestureWasNoOp => gesture.calls = 0


\* the last event cancelled a gesture: dnd-kit's onDragCancel, the dragend
\* of a row drag that was dropped on no row, or an outside drag leaving
GestureCancelled ==
  ev.op \in {"dragCancel", "rowDragCancel", "externalDragLeave"}

\* C16: in every variant, a gesture that was started and then cancelled never
\* invokes onReorder and leaves data and the sort state as they were.
C16_CancelIsNoOp ==
  GestureCancelled =>
    /\ ~ev.called
    /\ gesture.calls = 0
    /\ data = ev.data0
    /\ sorting = ev.sorting0

\* a drag cancelled on a sorted table whose rows were reordered before
C16_Witness ==
  /\ variant = "DnDKitOverlay"
  /\ ev.op = "dragCancel"
  /\ Holds(ev.data0, ev.active)
  /\ ev.sorting0 # <<>>
  /\ data # initialData
  /\ Len(data) = MaxRows


\* C17: in the dnd-kit variants, a drag end whose over is null never invokes
\* onReorder and leaves data and the sort state unchanged.
C17_NoTargetIsNoOp ==
  (/\ variant \in DndKitVariants
   /\ ev.op = "dragEnd"
   /\ ev.over = NoOver) =>
    /\ ~ev.called
    /\ gesture.calls = 0
    /\ data = ev.data0
    /\ sorting = ev.sorting0

\* a drag of a row released over no target, on a sorted table
C17_Witness ==
  /\ variant = "VirtuosoPlain"
  /\ hasOnReorder
  /\ ev.op = "dragEnd"
  /\ ev.over = NoOver
  /\ Holds(ev.data0, ev.active)
  /\ ev.sorting0 # <<>>
  /\ Len(ev.data0) = MaxRows


\* the last event is a committed gesture g2 on rows of data that follows a
\* committed gesture g1
SecondCommittedGesture ==
  /\ hasOnReorder
  /\ DragEndOnRows \/ DropOfRow
  /\ ev.called
  /\ ev.previous # <<>>

\* the 1-based positions, in the sequence S, of the row g2 dragged and of the
\* place g2 moves it to: the over row's in the dnd-kit variants, the drop
\* row's in WindowTable and part_000, the drop row's displayed index in
\* part_001
movedFrom(S) ==
  PositionOf(S, IF ev.op = "drop" THEN draggedRow ELSE ev.active)

movedOnto(S) ==
  CASE ev.op = "dragEnd"      -> PositionOf(S, ev.over)
    [] variant = "ThirdTable" -> ev.rowIndex + 1
    [] OTHER                  -> PositionOf(S, targetRow)

\* C18: with the parent storing every published sequence as the new data,
\* the sequence a committed gesture g2 publishes is g2's move applied to the
\* sequence the committed gesture g1 before it published; g2's handler does
\* not compute from the data array that was current before g1.
C18_GesturesCompose ==
  SecondCommittedGesture =>
    /\ ev.data0 = ev.previous
    /\ ev.published = MovedTo(ev.previous, movedFrom(ev.previous),
                              movedOnto(ev.previous))

\* a second committed drop served by a memoised handler, after a first one
\* that changed the order of the rows
C18_Witness ==
  /\ variant = "ThirdTable"
  /\ SecondCommittedGesture
  /\ ev.previous # initialData
  /\ ev.published # ev.previous
  /\ ev.published # initialData
  /\ Len(ev.previous) = MaxRows


\* C19: a header click that toggles the sort of a sortable column never
\* invokes onReorder and leaves data, the handler's data and every drag
\* state as they were; only the sort state, and with it the displayed order,
\* changes.
C19_SortToggleFrame ==
  [][ev'.op = "toggleSort" =>
       /\ data' = data
       /\ ~ev'.called
       /\ gesture' = gesture
       /\ UNCHANGED <<handlerData, activeId, isDragging, draggedRowIndex,
                      overRowIndex, session>>]_vars

\* a toggle, after a committed reorder, that displays the rows in another
\* order than data holds them
C19_Witness ==
  /\ ev.op = "toggleSort"
  /\ sorting # ev.sorting0
  /\ sorting # <<>>
  /\ rows # data
  /\ data # initialData
  /\ Len(data) = MaxRows


\* C20: in the drag-overlay variant of VirtuosoTable.tsx, activeId holds the
\* dragged row's id after the drag start of a row and is undefined after
\* every end of the gesture: a drag end over a target, a drag end over no
\* target, a cancel.
C20_ActiveIdEndsWithGesture ==
  (variant = "VirtuosoOverlay" /\ Holds(ev.data0, ev.active)) =>
    /\ ev.op = "dragStart" => activeId = ev.active
    /\ ev.op \in {"dragEnd", "dragCancel"} => activeId = Undefined


\* C21: in part_000, every drag session that starts on a row is followed by
\* a state with isDragging = false, draggedRowIndex = null and overRowIndex
\* = null, however the gesture ends and also when the dragged row left the
\* rendered window before it ended.
C21_DragStateIsReset ==
  (/\ variant = "VirtualizedTable"
   /\ session.phase = "dragging"
   /\ session.source = "row")
    ~> (/\ isDragging = FALSE
        /\ draggedRowIndex = NullIndex
        /\ overRowIndex = NullIndex)


\* the last event is a dnd-kit drag end, with onReorder supplied, of row a
\* over row b, directly after a committed drag end of the same a over the
\* same b, both rows of the data the first one found
RepeatedMove ==
  /\ variant \in DndKitVariants
  /\ hasOnReorder
  /\ ev.op = "dragEnd"
  /\ ev.previousMove # NoMove
  /\ ev.previousMove.active = ev.active
  /\ ev.previousMove.over = ev.over
  /\ Holds(ev.previousMove.data0, ev.active)
  /\ Holds(ev.previousMove.data0, ev.over)

\* C22: the move is not idempotent: the gesture (a onto b), a # b, applied
\* again to the sequence its first application published, publishes a
\* different sequence, a moved to the index b has after the first move.
C22_MoveNotIdempotent ==
  RepeatedMove =>
    /\ ev.data0 = ev.previous
    /\ ev.called
    /\ ev.published # ev.previous
    /\ ev.published = MovedTo(ev.previous, PositionOf(ev.previous, ev.active),
                              PositionOf(ev.previous, ev.over))

\* the same gesture applied twice on a full table, the second application
\* giving neither the first result nor the sequence before it
C22_Witness ==
  /\ RepeatedMove
  /\ variant = "SecondTable"
  /\ Len(ev.previous) = MaxRows
  /\ ev.published # ev.previousMove.data0


\* C23: in part_000, isDragging = true and a non-empty sort state never hold
\* together: at most one ordering authority is active in every reachable
\* state.
C23_OneOrderingAuthority ==
  variant = "VirtualizedTable" => ~(isDragging /\ sorting # <<>>)

\* a drag in progress on a full table whose rows were reordered before
C23_Witness ==
  /\ variant = "VirtualizedTable"
  /\ isDragging
  /\ session.phase = "dragging"
  /\ sorting = <<>>
  /\ data # initialData
  /\ Len(data) = MaxRows


\* C24: in part_000, onReorder is never invoked while the sort state is
\* non-empty: every drop that commits a reorder finds the rows displayed in
\* the order of data, whatever the source of the drop event.
C24_NoCommitWhileSorted ==
  (/\ variant = "VirtualizedTable"
   /\ DropOfRow
   /\ ev.called) =>
    /\ ev.sorting0 = <<>>
    /\ rows0 = ev.data0


\* the ids of the rows the handlers see
RowIds == {IdOf(handlerData[k]) : k \in 1..Len(handlerData)}

\* C25: with an empty sort state, for every dragged row a and target row b
\* of data, the two-splice handler (SecondTable), the arrayMove handler
\* (VirtuosoTable), the sorted-view-aware handler (WindowTable) and the
\* displayed-index handler (part_001) take the same decision and build the
\* same sequence.
C25_HandlersAgreeUnsorted ==
  (sorting = <<>> /\ ~crashed) =>
    \A a, b \in RowIds :
      LET draggedId == String(a)
          rowIndex  == findIndexById(rows, b)
          commit    == SecondTable_commits(a, b)
          newData   == SecondTable_newData(a, b)
      IN  /\ VirtuosoOverlay_commits(a, b) = commit
          /\ WindowTable_commits(draggedId, rowIndex) = commit
          /\ ThirdTable_commits(draggedId, rowIndex) = commit
          /\ commit =>
               /\ VirtuosoOverlay_newData(a, b) = newData
               /\ WindowTable_newData(draggedId, rowIndex) = newData
               /\ ThirdTable_newData(draggedId, rowIndex) = newData

\* an unsorted full table right after the displayed-index handler committed
\* a move, on which a further move of the first row onto the last differs
\* from data
C25_Witness ==
  /\ sorting = <<>>
  /\ ev.op \in {"dragEnd", "drop"}
  /\ ev.called
  /\ ev.sorting0 = <<>>
  /\ Len(data) = MaxRows
  /\ data # ev.data0
  /\ variant = "ThirdTable"
  /\ SecondTable_commits(data[1], data[MaxRows])
  /\ ThirdTable_newData(String(data[1]), MaxRows - 1) # data


\* the last event is a dnd-kit drag end, with onReorder supplied, directly
\* after a committed move of the same row a from index s of S onto a row b
\* of S: a is now dragged over the row that occupies index s in the sequence
\* that move published
UndoingMove ==
  /\ variant \in DndKitVariants
  /\ hasOnReorder
  /\ ev.op = "dragEnd"
  /\ ev.previousMove # NoMove
  /\ ev.previousMove.active = ev.active
  /\ Holds(ev.previousMove.data0, ev.active)
  /\ Holds(ev.previousMove.data0, ev.previousMove.over)
  /\ ev.over = ev.previous[PositionOf(ev.previousMove.data0, ev.active)]

\* C26: a committed move is undone by one further gesture: after row a was
\* moved from index s of S onto row b, dragging a onto the row at index s of
\* the published sequence publishes S again.
C26_MoveCanBeUndone ==
  UndoingMove =>
    /\ ev.data0 = ev.previous
    /\ ev.called
    /\ ev.published = ev.previousMove.data0

\* an undo, by the memoised handler, of a move across a row in between
C26_Witness ==
  /\ UndoingMove
  /\ variant = "DnDKitCallback"
  /\ Len(ev.previous) = MaxRows
  /\ ev.previous[PositionOf(ev.previousMove.data0, ev.active)]
       # ev.previousMove.over


\* the ids of the rows in the order they are displayed
displayedIds == [k \in 1..Len(rows) |-> IdOf(rows[k])]

\* C27: in every dnd-kit variant, for every sort state, the ids given to
\* SortableContext as items are in the order in which the rows are
\* displayed.
C27_ItemsInDisplayedOrder ==
  (variant \in DndKitVariants /\ ~crashed) =>
    SortableContext_items = displayedIds


\* C28: in WindowTable and part_000, a drop changes the sort state only when
\* it also publishes a new sequence through onReorder; a drop that publishes
\* nothing, also for want of an onReorder prop, leaves the sort as it was.
C28_SortClearedOnlyWithPublish ==
  (/\ variant \in {"WindowTable", "VirtualizedTable"}
   /\ ev.op = "drop"
   /\ sorting # ev.sorting0) =>
    ev.called


\* the summed sizes of virtual items
RECURSIVE SumOfSizes(_)
SumOfSizes(items) ==
  IF items = <<>> THEN 0
  ELSE (items[1].end - items[1].start) + SumOfSizes(Tail(items))

\* C29: in the virtualized variants, at every scroll position, when rows are
\* rendered the leading spacer, the rendered rows and the trailing spacer
\* add up to the total size N * rowHeight and neither spacer is negative;
\* when no row is rendered the dnd-kit variants' spacers are both 0 and the
\* native variants render no spacer.
C29_SpacersFillTotalSize ==
  (virtualized /\ ~crashed) =>
    \A offset \in ScrollOffsets :
      LET items  == getVirtualItems(offset)
          before == spacerBefore(offset)
          after  == spacerAfter(offset)
      IN  IF Len(items) > 0
          THEN /\ spacersRendered(offset)
               /\ before + SumOfSizes(items) + after = Len(rows) * rowHeight
               /\ before >= 0
               /\ after >= 0
          ELSE IF variant \in DndKitVariants
               THEN before = 0 /\ after = 0
               ELSE ~spacersRendered(offset)

\* a table scrolled so that rows above the rendered window are skipped
C29_Witness ==
  /\ variant = "VirtualizedTable"
  /\ ev.op = "scroll"
  /\ Len(rows) = MaxRows
  /\ Len(virtualRows) < Len(rows)
  /\ spacerBefore(scrollOffset) > 0
  /\ spacerAfter(scrollOffset) = 0
====
